---- MODULE Spec2Model ----
(***************************************************************************)
(* Verification model of universal_stock_analyzer_v2.                      *)
(*                                                                         *)
(* Two state machines share the variables below:                           *)
(*   Spec          the scoring engine (core/analyzer_engine.py) driven by  *)
(*                 UniversalAnalyzer.__init__ and the steps of analyze();  *)
(*   PipelineSpec  the CLI pipeline of main.py: the data fetcher with its  *)
(*                 cache (core/data_fetcher.py, utils/helpers.py),         *)
(*                 TechnicalDataEnhancer.ensure_sufficient_data and the    *)
(*                 data-source label of main().                            *)
(*                                                                         *)
(* Conventions.  TLA+ strings are ASCII, so every Chinese string of the    *)
(* source is written as an English tag; the tag tables are next to the     *)
(* operators that return them.  Fractional quantities are scaled to        *)
(* integers: debt ratios are in hundredths (0.5 is 50), technical scores   *)
(* are in half points (0.5 is 1), confidence values are in tenths (4.0 is  *)
(* 40) and the clock is in hours.                                          *)
(***************************************************************************)
EXTENDS Integers, Sequences, FiniteSets, TLC

VARIABLES
    industry,        \* UniversalAnalyzer.industry
    profile,         \* UniversalAnalyzer.profile
    apc,             \* position inside UniversalAnalyzer: new / ready / fundamentals / technicals / signal
    fundamentals,    \* result of _analyze_fundamentals
    technicals,      \* result of _analyze_technicals
    signal,          \* result of _generate_signal
    now,             \* wall clock, hours since midnight of day 0
    cache,           \* files of data/cache: set of [ticker, day, mtime, data]
    fetcher,         \* the UniversalDataFetcher of the running main()
    stock_data,      \* main(): stock_data
    requests,        \* what the last fetch_comprehensive_data call did to the outside world
    mpc,             \* position inside main()
    tech_indicators, \* main(): the labels put on tech_indicators
    searcher,        \* the FuzzyStockSearch: its stocks, with the marks find_stock leaves on them
    search_call,     \* the last call made on the searcher and what it returned
    call,            \* the last call of a helper made on its own: its arguments and what it returned
    web              \* the running analyze_for_web / analyze_stock_for_streamlit call

avars == <<industry, profile, apc, fundamentals, technicals, signal>>
pvars == <<now, cache, fetcher, stock_data, requests, mpc, tech_indicators>>
xvars == <<searcher, search_call, call, web>>
vars == <<industry, profile, apc, fundamentals, technicals, signal,
          now, cache, fetcher, stock_data, requests, mpc, tech_indicators,
          searcher, search_call, call, web>>

\* Python's None (a record, so that it compares with dicts and lists)
None == [None |-> TRUE]

\* dict.get(key, default)
Get(d, k, default) == IF k \in DOMAIN d THEN d[k] ELSE default

Min(a, b) == IF a < b THEN a ELSE b
Max(a, b) == IF a > b THEN a ELSE b

(***************************************************************************)
(* config/industry_profiles: the six profile tables.  Debt thresholds are  *)
(* in hundredths.  Only the keys and values the analyzer and the report    *)
(* generator read are kept apart from the descriptive keys, which are      *)
(* kept as keys with their first entries.                                  *)
(***************************************************************************)
SOFTWARE_PROFILE ==
    [name |-> "software",
     display_name |-> "software/tech",
     description |-> "SaaS, enterprise software, consumer software",
     fundamental_rules |->
        [growth_thresholds |-> [excellent |-> 20, good |-> 10, fair |-> 5],
         profitability_thresholds |-> [excellent |-> 30, good |-> 20, fair |-> 10],
         debt_safe_threshold |-> 50,
         debt_warning_threshold |-> 100,
         pe_warning_threshold |-> 40],
     key_metrics |-> <<"revenue growth", "gross margin", "free cash flow", "customer retention">>,
     risk_factors |-> <<"technology iteration", "market competition", "user churn", "data security">>]

ENERGY_PROFILE ==
    [name |-> "energy",
     display_name |-> "energy",
     description |-> "oil, gas, renewables",
     fundamental_rules |->
        [growth_thresholds |-> [excellent |-> 15, good |-> 8, fair |-> 3],
         profitability_thresholds |-> [excellent |-> 25, good |-> 15, fair |-> 8],
         debt_safe_threshold |-> 70,
         debt_warning_threshold |-> 120,
         pe_warning_threshold |-> 30],
     key_metrics |-> <<"cash flow per share", "reserve replacement", "cost per barrel", "dividend yield">>,
     risk_factors |-> <<"oil price volatility", "geopolitics", "energy transition", "environmental regulation">>]

FINANCIAL_PROFILE ==
    [name |-> "financial",
     display_name |-> "financial",
     description |-> "banks, insurance, asset management, investment banks",
     fundamental_rules |->
        [growth_thresholds |-> [excellent |-> 12, good |-> 7, fair |-> 3],
         profitability_thresholds |-> [excellent |-> 20, good |-> 15, fair |-> 10],
         debt_safe_threshold |-> 1000,
         debt_warning_threshold |-> 1500,
         pe_warning_threshold |-> 15,
         pb_warning_threshold |-> 250],
     key_metrics |-> <<"ROE", "NIM", "NPL", "CAR", "P/B", "dividend yield">>,
     valuation_emphasis |-> "price_to_book",
     technical_weight |-> 50,
     risk_factors |-> <<"interest rate risk", "credit risk", "regulatory risk", "liquidity risk", "cycle risk">>,
     special_notes |-> <<"technical analysis less relevant", "focus on fundamentals and valuation">>]

HEALTHCARE_PROFILE ==
    [name |-> "healthcare",
     display_name |-> "healthcare",
     description |-> "pharma, biotech, medical devices",
     fundamental_rules |->
        [growth_thresholds |-> [excellent |-> 20, good |-> 12, fair |-> 6],
         profitability_thresholds |-> [excellent |-> 30, good |-> 20, fair |-> 10],
         debt_safe_threshold |-> 60,
         debt_warning_threshold |-> 100,
         pe_warning_threshold |-> 35],
     key_metrics |-> <<"R&D ratio", "gross margin", "drug approvals", "patent expiry">>,
     risk_factors |-> <<"R&D failure", "regulatory approval", "patent cliff", "price control">>]

INDUSTRIAL_PROFILE ==
    [name |-> "industrial",
     display_name |-> "industrial",
     description |-> "machinery, aerospace, construction, electrical equipment",
     fundamental_rules |->
        [growth_thresholds |-> [excellent |-> 15, good |-> 8, fair |-> 3],
         profitability_thresholds |-> [excellent |-> 20, good |-> 12, fair |-> 6],
         debt_safe_threshold |-> 80,
         debt_warning_threshold |-> 150,
         pe_warning_threshold |-> 25],
     key_metrics |-> <<"order growth", "capacity utilisation", "gross margin", "inventory turnover">>,
     risk_factors |-> <<"economic cycle", "raw material cost", "trade policy", "exchange rates">>]

CONSUMER_STAPLES_PROFILE ==
    [display_name |-> "consumer staples",
     fundamental_rules |->
        [growth_thresholds |-> [excellent |-> 10, good |-> 5, fair |-> 2],
         profitability_thresholds |-> [excellent |-> 25, good |-> 15, fair |-> 8],
         debt_safe_threshold |-> 150,
         debt_warning_threshold |-> 250,
         pe_warning_threshold |-> 35],
     technical_preferences |-> [volatility_expectation |-> "low", trend_persistence |-> "medium"],
     valuation_metrics |-> [primary |-> "P/E"],
     risk_factors |-> <<"raw material cost", "consumer preference change", "regulation",
                        "exchange rates", "competition", "supply chain">>,
     strength_factors |-> <<"stable cash flow", "brand moat", "stable demand", "pricing power", "distribution">>,
     investment_themes |-> <<"brand value", "dividend strategy", "defensive allocation",
                             "global expansion", "product innovation">>,
     key_metrics_to_watch |-> <<"gross margin change", "market share", "same-store sales",
                                "inventory turnover", "free cash flow", "payout ratio", "brand ranking">>,
     sector_specific_notes |-> "notes"]

\* str.upper() on the industry codes the front ends can pass
Upper(s) ==
    CASE s = "software" -> "SOFTWARE"
      [] s = "energy" -> "ENERGY"
      [] s = "financial" -> "FINANCIAL"
      [] s = "healthcare" -> "HEALTHCARE"
      [] s = "industrial" -> "INDUSTRIAL"
      [] s = "consumer_staples" -> "CONSUMER_STAPLES"
      [] s = "consumer_discretionary" -> "CONSUMER_DISCRETIONARY"
      [] s = "utilities" -> "UTILITIES"
      [] s = "communication" -> "COMMUNICATION"
      [] s = "real_estate" -> "REAL_ESTATE"
      [] s = "materials" -> "MATERIALS"
      [] OTHER -> "OTHER"

\* the modules of the package config.industry_profiles and the one
\* attribute each of them defines: <<module, attribute prefix, value>>
ProfileModules ==
    {<<"software", "SOFTWARE", SOFTWARE_PROFILE>>,
     <<"energy", "ENERGY", ENERGY_PROFILE>>,
     <<"financial", "FINANCIAL", FINANCIAL_PROFILE>>,
     <<"healthcare", "HEALTHCARE", HEALTHCARE_PROFILE>>,
     <<"industrial", "INDUSTRIAL", INDUSTRIAL_PROFILE>>,
     <<"consumer_staples", "CONSUMER_STAPLES", CONSUMER_STAPLES_PROFILE>>}

\* the codes get_industry_display_name knows (all that detect_industry returns)
display_names ==
    {"software", "energy", "financial", "healthcare", "industrial", "consumer_staples",
     "consumer_discretionary", "utilities", "communication", "real_estate", "materials"}

\* the industry codes a caller constructs the analyzer with
IndustryCodes == display_names \cup {"unknown_code"}


(***************************************************************************)
(* UniversalAnalyzer.__init__ / _load_industry_profile                     *)
(***************************************************************************)
\* importlib.import_module(f"config.industry_profiles.{industry}"): the
\* modules found under that name (none: ImportError)
import_module(ind) == {m \in ProfileModules : m[1] = ind}

\* the dict returned when even the software profile cannot be imported
BasicProfile(ind) ==
    [display_name |-> ind,
     fundamental_rules |-> << >>,
     risk_factors |-> << >>,
     key_metrics_to_watch |-> << >>,
     investment_themes |-> << >>]

\* getattr(module, f"{industry.upper()}_PROFILE", None)
getattr_PROFILE(m, ind) == IF m[2] = Upper(ind) THEN m[3] ELSE None

\* a plausible slip: no fallback when the module is missing
_load_industry_profile_NoFallback(ind) ==
    LET found == import_module(ind)
    IN  IF found = {} THEN None
        ELSE getattr_PROFILE(CHOOSE m \in found : TRUE, ind)

_load_industry_profile(ind) ==
    LET found == import_module(ind)
        attr == IF found = {} THEN None
                ELSE getattr_PROFILE(CHOOSE m \in found : TRUE, ind)
    IN  IF attr # None THEN attr
        ELSE \* ImportError or AttributeError: fall back to the software profile
             IF import_module("software") # {} THEN SOFTWARE_PROFILE
             ELSE BasicProfile(ind)

(***************************************************************************)
(* UniversalAnalyzer._analyze_fundamentals.  data is the part of the input *)
(* dict the method reads: financials.revenue_growth, .operating_margin,    *)
(* .debt_to_equity (hundredths), .free_cashflow and valuation.trailing_pe. *)
(***************************************************************************)
DefaultGrowth == [excellent |-> 15, good |-> 8, fair |-> 3]
DefaultMargin == [excellent |-> 20, good |-> 12, fair |-> 5]

\* a slip: the excellent tier scores 3
ThresholdPoints_Three(v, th) ==
    IF v >= th.excellent THEN 3
    ELSE IF v >= th.good THEN 1
    ELSE 0

\* points of a value against an excellent/good/fair table (growth, margin)
ThresholdPoints(v, th) ==
    IF v >= th.excellent THEN 2
    ELSE IF v >= th.good THEN 1
    ELSE 0

\* debt_ratio < debt_safe * 0.5 : 2, debt_ratio < debt_safe : 1
DebtPoints(debt_ratio, debt_safe) ==
    IF 2 * debt_ratio < debt_safe THEN 2
    ELSE IF debt_ratio < debt_safe THEN 1
    ELSE 0

CashflowPoints(fcf) == IF fcf > 0 THEN 1 ELSE 0

PEPoints(pe) == IF 0 < pe /\ pe < 25 THEN 1 ELSE 0

\* a slip: the first two thresholds swapped
FundamentalRating_Swapped(score) ==
    IF score >= 4 THEN "excellent"
    ELSE IF score >= 6 THEN "good"
    ELSE IF score >= 2 THEN "medium"
    ELSE "weak"

\* rating tags: excellent (youxiu), good (lianghao), medium (zhongdeng), weak (piruo)
FundamentalRating(score) ==
    IF score >= 6 THEN "excellent"
    ELSE IF score >= 4 THEN "good"
    ELSE IF score >= 2 THEN "medium"
    ELSE "weak"

_analyze_fundamentals(prof, data) ==
    LET rules == Get(prof, "fundamental_rules", << >>)
        growth_thresholds == Get(rules, "growth_thresholds", DefaultGrowth)
        margin_thresholds == Get(rules, "profitability_thresholds", DefaultMargin)
        debt_safe == Get(rules, "debt_safe_threshold", 100)
        score == ThresholdPoints(data.revenue_growth, growth_thresholds)
                 + ThresholdPoints(data.operating_margin, margin_thresholds)
                 + DebtPoints(data.debt_to_equity, debt_safe)
                 + CashflowPoints(data.free_cashflow)
                 + PEPoints(data.trailing_pe)
    IN  [score |-> score,
         max_score |-> 8,
         rating |-> FundamentalRating(score)]

(***************************************************************************)
(* UniversalAnalyzer._analyze_technicals.  Scores are in half points.      *)
(* data is the part of the input dict the method reads:                    *)
(*   has_sufficient_data  price_data.has_sufficient_data                   *)
(*   history_len          len(price_data.history), -1 when it is no frame  *)
(*   current_vs_high      price_data.stats.current_vs_high                 *)
(*   rsi, ma20, ma50      price_data.technicals                            *)
(*   current, volume, change_pct   price_data.latest                       *)
(*   avg_volume           price_data.stats.avg_volume or mean_volume       *)
(*   advanced             technical_indicators: None when empty or        *)
(*                        absent, else its momentum oversold/overbought    *)
(***************************************************************************)
HasData(data) == data.has_sufficient_data \/ data.history_len >= 10

HighPoints(current_vs_high) ==
    IF current_vs_high < -30 THEN 4
    ELSE IF current_vs_high < -15 THEN 2
    ELSE 0

RsiPoints(rsi) ==
    IF rsi < 30 THEN 4
    ELSE IF rsi < 40 THEN 2
    ELSE IF rsi > 70 THEN -2
    ELSE 0

MovingAveragePoints(current_price, ma20, ma50) ==
    IF current_price > 0
    THEN IF current_price > ma20 /\ ma20 > ma50 THEN 2
         ELSE IF current_price < ma20 /\ ma20 < ma50 THEN -2
         ELSE 0
    ELSE 0

\* volume / avg_volume > 1.5
VolumePoints(volume, avg_volume) ==
    IF volume > 0 /\ avg_volume > 0 /\ 2 * volume > 3 * avg_volume THEN 1 ELSE 0

ChangePoints(change_pct) == IF change_pct > 3 THEN 1 ELSE 0

AdvancedPoints(advanced) ==
    IF advanced = None THEN 0
    ELSE (IF advanced.oversold THEN 2 ELSE 0) + (IF advanced.overbought THEN -2 ELSE 0)

\* a slip: the score is not limited to its range
ClampScore_None(score) == score

\* score = max(min(score, 6), 0)
ClampScore(score) == Max(Min(score, 12), 0)

\* rating tags: oversold/opportunity (chaomai/jihui), neutral-strong
\* (zhongxing pianqiang), neutral (zhongxing), neutral-weak (zhongxing
\* pianruo), cautious (jinshen); thresholds 4.5, 3, 1.5, 0 in half points
TechnicalRating(score) ==
    IF score >= 9 THEN "oversold/opportunity"
    ELSE IF score >= 6 THEN "neutral-strong"
    ELSE IF score >= 3 THEN "neutral"
    ELSE IF score > 0 THEN "neutral-weak"
    ELSE "cautious"

_analyze_technicals(data) ==
    IF ~HasData(data)
    THEN [score |-> 0,
          max_score |-> 6,
          rating |-> "insufficient data",
          data_status |-> "insufficient"]
    ELSE LET raw == HighPoints(data.current_vs_high)
                    + RsiPoints(data.rsi)
                    + MovingAveragePoints(data.current, data.ma20, data.ma50)
                    + VolumePoints(data.volume, data.avg_volume)
                    + ChangePoints(data.change_pct)
                    + AdvancedPoints(data.advanced)
             score == ClampScore(raw)
         IN  [score |-> score,
              max_score |-> 6,
              rating |-> TechnicalRating(score),
              data_status |-> "sufficient"]

(***************************************************************************)
(* UniversalAnalyzer._generate_signal.  Confidence is in tenths,           *)
(* price_to_book in hundredths.  Recommendation tags:                      *)
(*   consider buying (kaolv mairu), consider allocating (kaolv peizhi),    *)
(*   technical opportunity (jishumian jihui), oversold rebound opportunity *)
(*   (chaomai fantan jihui), watch bullish (guanwang pianduo), fundamental *)
(*   support (jibenmian zhicheng), watch (guanwang), attractive valuation  *)
(*   (guzhi xiyin), cautious (jinshen), and the three tags of the          *)
(*   insufficient-data branch, which end in "(technical data               *)
(*   insufficient)" (jishu shuju buzu).                                    *)
(***************************************************************************)
\* fund_score / max_score >= tenths / 10
FundRatioGE(f, tenths) ==
    IF f.max_score > 0 THEN 10 * f.score >= tenths * f.max_score ELSE 0 >= tenths

\* tech_score / max_score >= tenths / 10, the score being in half points
TechRatioGE(t, tenths) ==
    IF t.max_score > 0 THEN 10 * t.score >= tenths * 2 * t.max_score ELSE 0 >= tenths

\* a slip: the default strategy tests the technical ratio against 0.5
DefaultSignal_Loose(f, t) ==
    IF FundRatioGE(f, 6) /\ TechRatioGE(t, 5)
    THEN [recommendation |-> "consider buying", confidence |-> 40]
    ELSE IF FundRatioGE(f, 4) /\ TechRatioGE(t, 7)
    THEN [recommendation |-> "technical opportunity", confidence |-> 35]
    ELSE IF TechRatioGE(t, 8)
    THEN [recommendation |-> "oversold rebound opportunity", confidence |-> 30]
    ELSE IF TechRatioGE(t, 6) /\ FundRatioGE(f, 3)
    THEN [recommendation |-> "watch bullish", confidence |-> 28]
    ELSE IF FundRatioGE(f, 5) /\ TechRatioGE(t, 3)
    THEN [recommendation |-> "fundamental support", confidence |-> 28]
    ELSE [recommendation |-> "watch", confidence |-> 25]

DefaultSignal(f, t) ==
    IF FundRatioGE(f, 6) /\ TechRatioGE(t, 6)
    THEN [recommendation |-> "consider buying", confidence |-> 40]
    ELSE IF FundRatioGE(f, 4) /\ TechRatioGE(t, 7)
    THEN [recommendation |-> "technical opportunity", confidence |-> 35]
    ELSE IF TechRatioGE(t, 8)
    THEN [recommendation |-> "oversold rebound opportunity", confidence |-> 30]
    ELSE IF TechRatioGE(t, 6) /\ FundRatioGE(f, 3)
    THEN [recommendation |-> "watch bullish", confidence |-> 28]
    ELSE IF FundRatioGE(f, 5) /\ TechRatioGE(t, 3)
    THEN [recommendation |-> "fundamental support", confidence |-> 28]
    ELSE [recommendation |-> "watch", confidence |-> 25]

EnergySignal(f, t) ==
    IF FundRatioGE(f, 6) /\ TechRatioGE(t, 7)
    THEN [recommendation |-> "consider allocating", confidence |-> 40]
    ELSE IF TechRatioGE(t, 8)
    THEN [recommendation |-> "technical opportunity", confidence |-> 35]
    ELSE [recommendation |-> "watch", confidence |-> 25]

FinancialSignal(f, price_to_book) ==
    IF FundRatioGE(f, 7) /\ price_to_book < 200
    THEN [recommendation |-> "attractive valuation", confidence |-> 40]
    ELSE [recommendation |-> "cautious", confidence |-> 30]

InsufficientSignal(f) ==
    IF FundRatioGE(f, 7)
    THEN [recommendation |-> "fundamentals good (technical data insufficient)", confidence |-> 30]
    ELSE IF FundRatioGE(f, 4)
    THEN [recommendation |-> "watch (technical data insufficient)", confidence |-> 25]
    ELSE [recommendation |-> "cautious (technical data insufficient)", confidence |-> 20]

_generate_signal(ind, f, t, price_to_book) ==
    IF "data_status" \in DOMAIN t /\ t.data_status = "insufficient" THEN InsufficientSignal(f)
    ELSE IF ind = "energy" THEN EnergySignal(f, t)
    ELSE IF ind = "financial" THEN FinancialSignal(f, price_to_book)
    ELSE DefaultSignal(f, t)

(***************************************************************************)
(* UniversalAnalyzer._identify_risks.  data is the part of the input dict  *)
(* the method reads: financials.debt_to_equity (hundredths),               *)
(* valuation.trailing_pe, financials.revenue_growth and                    *)
(* technical_indicators (None: the key is absent or the dict is empty).    *)
(* The three formatted risks are kept as their names.                      *)
(***************************************************************************)
\* seq[:n]
Take(seq, n) == SubSeq(seq, 1, Min(n, Len(seq)))

\* the risks collected before the final cut
CollectRisks(prof, data) ==
    LET rules == Get(prof, "fundamental_rules", << >>)
        generic_risks == Get(prof, "risk_factors", << >>)
        debt_warning == Get(rules, "debt_warning_threshold", 200)
        pe_danger == Get(rules, "pe_warning_threshold", 40)
    IN  Take(generic_risks, 2)
        \o (IF data.debt_to_equity > debt_warning THEN <<"high debt">> ELSE << >>)
        \o (IF data.trailing_pe > pe_danger THEN <<"high valuation">> ELSE << >>)
        \o (IF data.revenue_growth < 0 THEN <<"negative revenue growth">> ELSE << >>)
        \o (IF /\ data.technical_indicators # None
               /\ data.technical_indicators.data_quality = "enhanced"
            THEN <<"technical analysis based on partly simulated data">> ELSE << >>)

\* a slip: the list is returned without the cut
_identify_risks_Uncut(prof, data) == CollectRisks(prof, data)

_identify_risks(prof, data) == Take(CollectRisks(prof, data), 3)

(***************************************************************************)
(* core/report_generator.py: ReportGenerator._generate_strategy_           *)
(* recommendation.  The block emitted is named by its heading; "buy",      *)
(* "add", "watch" and "hold" are the four strings the method compares the  *)
(* recommendation with.                                                    *)
(***************************************************************************)
_generate_strategy_recommendation(recommendation) ==
    IF recommendation \in {"buy", "add"} THEN "active allocation strategy"
    ELSE IF recommendation \in {"watch", "hold"} THEN "watch/hold strategy"
    ELSE "cautious/reduce strategy"

(***************************************************************************)
(* utils/helpers.py: the file cache.  A cache file is                      *)
(* [ticker, day, mtime, data]: its path data/cache/{ticker}_{key}.pkl is   *)
(* fixed by the ticker and the day the key was computed on (the key is the *)
(* md5 of ticker, data type and today's date), mtime is the hour it was    *)
(* written.  The front ends only use the data type "all".                  *)
(***************************************************************************)
HoursPerDay == 24
CacheExpiryHours == 6
max_files == 20

\* get_cache_path: the path is determined by <<ticker, day of the clock>>
get_cache_path(ticker, t) == <<ticker, t \div HoursPerDay>>

FileAt(files, path) == {f \in files : <<f.ticker, f.day>> = path}

\* is_cache_valid(cache_path), expiry_hours left at its default
is_cache_valid(files, path, t) ==
    \E f \in FileAt(files, path) : t - f.mtime < CacheExpiryHours

\* load_from_cache(ticker): the pickled dict with the '_cache' marker added, or None
load_from_cache(files, ticker, t) ==
    LET path == get_cache_path(ticker, t)
    IN  IF is_cache_valid(files, path, t)
        THEN LET f == CHOOSE f \in FileAt(files, path) : TRUE
             IN  [f.data EXCEPT !.keys = @ \cup {"_cache"}]
        ELSE None

\* the name of a cache file, "{ticker}_{key}.pkl": the key, twelve hex
\* digits fixed by ticker and day, is written as the number of the day
FileName(f) == f.ticker \o "_" \o ToString(f.day) \o ".pkl"

\* filename.startswith(prefix)
StartsWith(filename, prefix) ==
    /\ Len(filename) >= Len(prefix)
    /\ SubSeq(filename, 1, Len(prefix)) = prefix

\* cleanup_old_cache(ticker): of the files whose name starts with
\* "{ticker}_" the max_files newest stay (the mtimes of files differ)
cleanup_old_cache(files, ticker) ==
    LET mine == {f \in files : StartsWith(FileName(f), ticker \o "_")}
    IN  {f \in files :
            f \in mine => Cardinality({g \in mine : g.mtime > f.mtime}) < max_files}

\* save_to_cache(data, ticker): marker removed, file (over)written, cleanup
save_to_cache(files, data, ticker, t) ==
    LET path == get_cache_path(ticker, t)
        file == [ticker |-> ticker, day |-> path[2], mtime |-> t,
                 data |-> [data EXCEPT !.keys = @ \ {"_cache"}]]
    IN  cleanup_old_cache((files \ FileAt(files, path)) \cup {file}, ticker)

(***************************************************************************)
(* core/data_fetcher.py.  A price history is [real, synth]: the number of  *)
(* rows that came from upstream and the number of synthesized rows.  A     *)
(* data set keeps what the pipeline reads: its top-level keys,             *)
(* data_quality, price_data.history (None when the key is absent),         *)
(* price_data.latest.has_sufficient_data and                               *)
(* price_data.has_sufficient_data (FALSE when absent, the default of every *)
(* reader).                                                                *)
(***************************************************************************)
BasicRows == 30
max_retries == 3
DefaultCacheExpiryHours == 6

\* UniversalDataFetcher.__init__(ticker, use_cache, cache_expiry_hours)
UniversalDataFetcher(ticker, use_cache, cache_expiry_hours) ==
    [ticker |-> ticker, use_cache |-> use_cache,
     cache_expiry_hours |-> cache_expiry_hours, cache_hit |-> FALSE]

Rows(h) == h.real + h.synth
EmptyFrame == [real |-> 0, synth |-> 0]

\* _create_basic_price_data: 30 synthesized daily rows ending now
_create_basic_price_data == [real |-> 0, synth |-> BasicRows]

\* pd.concat([hist, sim_data]) without the rows whose index is duplicated
\* (keep='first' keeps the upstream row); dups simulated dates coincide
Combine(hist, sim, dups) ==
    [real |-> hist.real + sim.real, synth |-> hist.synth + sim.synth - dups]

\* a slip: the short history is returned as it is
_process_price_data_NoFill(hist, dups) ==
    [history |-> hist, latest_sufficient |-> Rows(hist) >= 20]

\* _process_price_data: history and latest.has_sufficient_data
_process_price_data(hist, dups) ==
    LET sim_data == _create_basic_price_data
        filled == IF Rows(hist) < 20
                  THEN IF Rows(hist) > 0 THEN Combine(hist, sim_data, dups)
                       ELSE sim_data
                  ELSE hist
        final == IF Rows(filled) < 20 THEN _create_basic_price_data ELSE filled
    IN  [history |-> final, latest_sufficient |-> Rows(final) >= 20]

FullKeys ==
    {"basic_info", "price_data", "financials", "valuation", "analyst", "ticker",
     "data_quality"}

\* _process_all_data(info, hist)
_process_all_data(hist, dups) ==
    LET h == IF Rows(hist) < 5 THEN _create_basic_price_data ELSE hist
        price_data == _process_price_data(h, dups)
    IN  [keys |-> FullKeys,
         data_quality |-> IF Rows(h) > 20 THEN "full" ELSE "partial",
         history |-> price_data.history,
         latest_sufficient |-> price_data.latest_sufficient,
         has_sufficient_data |-> FALSE]

\* _get_minimal_data
_get_minimal_data ==
    [keys |-> FullKeys \cup {"error"},
     data_quality |-> "minimal",
     history |-> None,
     latest_sufficient |-> FALSE,
     has_sufficient_data |-> FALSE]

\* the retry loop around self.stock.history(): outs[i] is what attempt i
\* does (raise, return an empty frame, return rows); the result is the
\* frame handed on and the number of requests made
RECURSIVE HistoryLoop(_, _, _)
HistoryLoop(outs, attempt, hist) ==
    IF attempt > max_retries THEN [hist |-> hist, calls |-> max_retries]
    ELSE LET o == outs[attempt]
         IN  IF o.kind = "raise"
             THEN IF attempt = max_retries
                  THEN [hist |-> _create_basic_price_data, calls |-> attempt]
                  ELSE HistoryLoop(outs, attempt + 1, hist)
             ELSE IF o.kind = "empty"
             THEN HistoryLoop(outs, attempt + 1, EmptyFrame)
             ELSE [hist |-> [real |-> o.rows, synth |-> 0], calls |-> attempt]

\* the body of the try block of fetch_comprehensive_data: raised tells
\* that an exception left it.  info is what self.stock.info does: kind is
\* raise, empty or ok, and bad tells that a field makes an extraction step
\* raise (a None where a number is multiplied or compared).
FetchBody(f, files, t, info, outs, dups) ==
    IF info.kind # "ok"
    THEN [raised |-> TRUE, data |-> None, cache |-> files,
          info_requests |-> 1, history_requests |-> 0, cache_writes |-> 0]
    ELSE LET h == HistoryLoop(outs, 1, EmptyFrame)
         IN  IF info.bad
             THEN [raised |-> TRUE, data |-> None, cache |-> files,
                   info_requests |-> 1, history_requests |-> h.calls, cache_writes |-> 0]
             ELSE LET all_data == _process_all_data(h.hist, dups)
                  IN  [raised |-> FALSE, data |-> all_data,
                       cache |-> IF f.use_cache
                                 THEN save_to_cache(files, all_data, f.ticker, t)
                                 ELSE files,
                       info_requests |-> 1, history_requests |-> h.calls,
                       cache_writes |-> IF f.use_cache THEN 1 ELSE 0]

\* a slip: no handler around the body
fetch_comprehensive_data_NoHandler(f, files, t, info, outs, dups) ==
    LET cached == IF f.use_cache THEN load_from_cache(files, f.ticker, t) ELSE None
        r == FetchBody(f, files, t, info, outs, dups)
    IN  IF cached # None
        THEN [raised |-> FALSE, data |-> cached, cache_hit |-> TRUE, cache |-> files,
              info_requests |-> 0, history_requests |-> 0, cache_writes |-> 0]
        ELSE [raised |-> r.raised, data |-> r.data, cache_hit |-> f.cache_hit,
              cache |-> r.cache, info_requests |-> r.info_requests,
              history_requests |-> r.history_requests, cache_writes |-> r.cache_writes]

\* a slip: the cache is consulted but the data is downloaded all the same
fetch_comprehensive_data_Refetch(f, files, t, info, outs, dups) ==
    LET cached == IF f.use_cache THEN load_from_cache(files, f.ticker, t) ELSE None
        r == FetchBody(f, files, t, info, outs, dups)
    IN  [raised |-> FALSE,
         data |-> IF cached # None THEN cached
                  ELSE IF r.raised THEN _get_minimal_data ELSE r.data,
         cache_hit |-> (cached # None) \/ f.cache_hit,
         cache |-> r.cache, info_requests |-> r.info_requests,
         history_requests |-> r.history_requests, cache_writes |-> r.cache_writes]

\* fetch_comprehensive_data: what it returns or raises, the fetcher's
\* cache_hit afterwards, the cache afterwards and the requests it made
fetch_comprehensive_data(f, files, t, info, outs, dups) ==
    LET cached == IF f.use_cache THEN load_from_cache(files, f.ticker, t) ELSE None
        r == FetchBody(f, files, t, info, outs, dups)
    IN  IF cached # None
        THEN [raised |-> FALSE, data |-> cached, cache_hit |-> TRUE, cache |-> files,
              info_requests |-> 0, history_requests |-> 0, cache_writes |-> 0]
        ELSE [raised |-> FALSE,
              data |-> IF r.raised THEN _get_minimal_data ELSE r.data,
              cache_hit |-> f.cache_hit,
              cache |-> r.cache, info_requests |-> r.info_requests,
              history_requests |-> r.history_requests, cache_writes |-> r.cache_writes]

(***************************************************************************)
(* utils/technical_helper.py: TechnicalDataEnhancer                        *)
(***************************************************************************)
\* a slip: the supplement is one row short
_create_enhanced_history_OneShort(existing, min_days) ==
    IF existing # None /\ Rows(existing) > 0
    THEN IF min_days - Rows(existing) > 0
         THEN [real |-> existing.real,
               synth |-> existing.synth + (min_days - Rows(existing)) - 1]
         ELSE existing
    ELSE [real |-> 0, synth |-> min_days]

\* _create_enhanced_history(existing_history, latest_price, min_days): the
\* supplement is dated after the last existing row, so no index repeats
_create_enhanced_history(existing, min_days) ==
    IF existing # None /\ Rows(existing) > 0
    THEN IF min_days - Rows(existing) > 0
         THEN [real |-> existing.real,
               synth |-> existing.synth + (min_days - Rows(existing))]
         ELSE existing
    ELSE [real |-> 0, synth |-> min_days]

\* ensure_sufficient_data(stock_data, min_days)
ensure_sufficient_data(data, min_days) ==
    IF data.history # None /\ Rows(data.history) >= min_days
    THEN data
    ELSE [data EXCEPT !.history = _create_enhanced_history(data.history, min_days),
                      !.has_sufficient_data = TRUE]

(***************************************************************************)
(* utils/fuzzy_search.py: FuzzyStockSearch.  Strings are Python strings.   *)
(* A similarity or a score, a float in the code, is the fraction num/den.  *)
(* A stock is [symbol, name, search_terms, match_type, score]; match_type  *)
(* "" and score 0 stand for a stock dict without these keys (the only      *)
(* reader of an absent score, the final sort, reads it as 0).              *)
(***************************************************************************)
\* the characters of the strings handled here, in code point order
Alphabet == " &().0123456789ABCDEFGHIJKLMNOPQRSTUVWXYZabcdefghijklmnopqrstuvwxyz"

ord(c) == CHOOSE i \in 1..Len(Alphabet) : SubSeq(Alphabet, i, i) = c

IsUpperChar(c) == \E i \in 1..Len(Alphabet) : SubSeq(Alphabet, i, i) = c /\ i \in 16..41
IsLowerChar(c) == \E i \in 1..Len(Alphabet) : SubSeq(Alphabet, i, i) = c /\ i \in 42..67

\* str.lower()
RECURSIVE lower(_)
lower(s) ==
    IF Len(s) = 0 THEN ""
    ELSE LET c == SubSeq(s, 1, 1)
         IN  (IF IsUpperChar(c) THEN SubSeq(Alphabet, ord(c) + 26, ord(c) + 26) ELSE c)
                 \o lower(SubSeq(s, 2, Len(s)))

\* str.upper()
RECURSIVE upper(_)
upper(s) ==
    IF Len(s) = 0 THEN ""
    ELSE LET c == SubSeq(s, 1, 1)
         IN  (IF IsLowerChar(c) THEN SubSeq(Alphabet, ord(c) - 26, ord(c) - 26) ELSE c)
                 \o upper(SubSeq(s, 2, Len(s)))

\* str.strip()
RECURSIVE strip(_)
strip(s) ==
    IF Len(s) = 0 THEN ""
    ELSE IF SubSeq(s, 1, 1) = " " THEN strip(SubSeq(s, 2, Len(s)))
    ELSE IF SubSeq(s, Len(s), Len(s)) = " " THEN strip(SubSeq(s, 1, Len(s) - 1))
    ELSE s

\* sub in s
In(sub, s) ==
    \E i \in 1..(Len(s) - Len(sub) + 1) : SubSeq(s, i, i + Len(sub) - 1) = sub

\* a < b for strings
RECURSIVE StrLess(_, _)
StrLess(a, b) ==
    IF Len(b) = 0 THEN FALSE
    ELSE IF Len(a) = 0 THEN TRUE
    ELSE IF SubSeq(a, 1, 1) = SubSeq(b, 1, 1)
         THEN StrLess(SubSeq(a, 2, Len(a)), SubSeq(b, 2, Len(b)))
         ELSE ord(SubSeq(a, 1, 1)) < ord(SubSeq(b, 1, 1))

\* the value of x handed on to F: one statement after another
Then(x, F(_)) == CHOOSE r \in {F(v) : v \in {x}} : TRUE

\* the length of the longest common run of a from i and b from j
RECURSIVE RunLength(_, _, _, _)
RunLength(a, b, i, j) ==
    IF i > Len(a) \/ j > Len(b) THEN 0
    ELSE IF SubSeq(a, i, i) # SubSeq(b, j, j) THEN 0
    ELSE 1 + RunLength(a, b, i + 1, j + 1)

\* SequenceMatcher.find_longest_match: <<i, j, k>>, the longest block
\* a[i..i+k-1] = b[j..j+k-1], of those the one starting earliest in a, of
\* those the one starting earliest in b (no junk; both strings are short)
find_longest_match(a, b) ==
    Then({<<p[1], p[2], RunLength(a, b, p[1], p[2])>> :
             p \in {q \in (1..Len(a)) \X (1..Len(b)) :
                       SubSeq(a, q[1], q[1]) = SubSeq(b, q[2], q[2])}},
         LAMBDA runs :
             IF runs = {} THEN <<1, 1, 0>>
             ELSE CHOOSE m \in runs : \A o \in runs :
                      \/ m[3] > o[3]
                      \/ m[3] = o[3] /\ m[1] < o[1]
                      \/ m[3] = o[3] /\ m[1] = o[1] /\ m[2] <= o[2])

\* the sum of the sizes of SequenceMatcher.get_matching_blocks()
RECURSIVE matches(_, _)
matches(a, b) ==
    IF Len(a) = 0 \/ Len(b) = 0 THEN 0
    ELSE Then(find_longest_match(a, b),
              LAMBDA m :
                  IF m[3] = 0 THEN 0
                  ELSE m[3]
                       + matches(SubSeq(a, 1, m[1] - 1), SubSeq(b, 1, m[2] - 1))
                       + matches(SubSeq(a, m[1] + m[3], Len(a)),
                                 SubSeq(b, m[2] + m[3], Len(b))))

\* SequenceMatcher(None, a, b).ratio() = 2.0 * matches / (len(a) + len(b))
ratio(a, b) ==
    IF Len(a) + Len(b) = 0 THEN [num |-> 1, den |-> 1]
    ELSE [num |-> 2 * matches(a, b), den |-> Len(a) + Len(b)]

\* x > y, x >= y and x = y for fractions
Gt(x, y) == x.num * y.den > y.num * x.den
Ge(x, y) == x.num * y.den >= y.num * x.den
Eq(x, y) == x.num * y.den = y.num * x.den

\* a float literal given in hundredths, and similarity * literal
Hundredths(h) == [num |-> h, den |-> 100]
Times(x, h) == [num |-> x.num * h, den |-> x.den * 100]

\* the stock dict of a database entry as _load_database returns it
StockDict(symbol, name, search_terms) ==
    [symbol |-> symbol, name |-> name, search_terms |-> search_terms,
     match_type |-> "", score |-> Hundredths(0)]

\* stock["match_type"] = match_type; stock["score"] = score
Mark(stocks, i, match_type, score) ==
    [stocks EXCEPT ![i].match_type = match_type, ![i].score = score]

\* stock in results (list membership compares the dicts)
InResults(st, i) ==
    \E k \in 1..Len(st.results) : st.stocks[st.results[k]] = st.stocks[i]

\* find_stock step 1: the first stock whose symbol is the query (0: none)
ExactSymbol(stocks, query) ==
    LET hits == {i \in 1..Len(stocks) : query = lower(stocks[i].symbol)}
    IN  IF hits = {} THEN 0 ELSE CHOOSE i \in hits : \A j \in hits : i <= j

\* find_stock step 2, from stock i on: the stocks whose name is the query
RECURSIVE ExactNames(_, _, _)
ExactNames(st, query, i) ==
    IF i > Len(st.stocks) THEN st
    ELSE ExactNames(
             IF query = lower(st.stocks[i].name)
             THEN [stocks |-> Mark(st.stocks, i, "exact_name", Hundredths(95)),
                   results |-> Append(st.results, i)]
             ELSE st,
             query, i + 1)

\* find_stock step 3, from stock i on: the stocks whose name contains the query
RECURSIVE PartialNames(_, _, _)
PartialNames(st, query, i) ==
    IF i > Len(st.stocks) THEN st
    ELSE PartialNames(
             Then(ratio(query, lower(st.stocks[i].name)),
                  LAMBDA similarity :
                      IF /\ In(query, lower(st.stocks[i].name))
                         /\ Gt(similarity, Hundredths(30))
                      THEN [stocks |-> Mark(st.stocks, i, "partial_name",
                                            Times(similarity, 80)),
                            results |-> Append(st.results, i)]
                      ELSE st),
             query, i + 1)

\* find_stock step 4, from search term t of stock i on
RECURSIVE SearchTerms(_, _, _, _)
SearchTerms(st, query, i, t) ==
    IF i > Len(st.stocks) THEN st
    ELSE IF t > Len(st.stocks[i].search_terms) THEN SearchTerms(st, query, i + 1, 1)
    ELSE LET term == st.stocks[i].search_terms[t]
         IN  SearchTerms(
                 Then(ratio(query, term),
                      LAMBDA similarity :
                          IF /\ In(query, term) \/ In(term, query)
                             /\ Gt(similarity, Hundredths(50))
                          THEN LET marked == [st EXCEPT !.stocks =
                                                 Mark(@, i, "search_term",
                                                      Times(similarity, 70))]
                               IN  IF InResults(marked, i) THEN marked
                                   ELSE [marked EXCEPT !.results = Append(@, i)]
                          ELSE st),
                 query, i, t + 1)

\* the names find_stock step 5 collects for one stock
NamesOf(stock) == <<lower(stock.symbol), lower(stock.name)>> \o stock.search_terms

\* all_names of find_stock step 5, from stock i on
RECURSIVE all_names(_, _)
all_names(stocks, i) ==
    IF i > Len(stocks) THEN << >>
    ELSE NamesOf(stocks[i]) \o all_names(stocks, i + 1)

\* name_to_stock.get(name): the last stock that gave the name (0: None)
name_to_stock(stocks, name) ==
    LET owners == {i \in 1..Len(stocks) :
                      \E k \in 1..Len(NamesOf(stocks[i])) : NamesOf(stocks[i])[k] = name}
    IN  IF owners = {} THEN 0 ELSE CHOOSE i \in owners : \A j \in owners : i >= j

\* heapq.nlargest(n, pairs) for pairs <<ratio, string>>: sorted downwards
RECURSIVE nlargest(_, _)
nlargest(n, pairs) ==
    IF n <= 0 \/ Len(pairs) = 0 THEN << >>
    ELSE LET top == CHOOSE k \in 1..Len(pairs) : \A o \in 1..Len(pairs) :
                        \/ Gt(pairs[k][1], pairs[o][1])
                        \/ /\ Eq(pairs[k][1], pairs[o][1])
                           /\ ~StrLess(pairs[k][2], pairs[o][2])
             rest == [k \in 1..(Len(pairs) - 1) |->
                         IF k < top THEN pairs[k] ELSE pairs[k + 1]]
         IN  <<pairs[top]>> \o nlargest(n - 1, rest)

\* the candidates of difflib.get_close_matches, from possibility k on
RECURSIVE CloseEnough(_, _, _, _)
CloseEnough(word, possibilities, cutoff, k) ==
    IF k > Len(possibilities) THEN << >>
    ELSE Then(ratio(possibilities[k], word),
              LAMBDA r : IF Ge(r, cutoff) THEN <<(<<r, possibilities[k]>>)>> ELSE << >>)
             \o CloseEnough(word, possibilities, cutoff, k + 1)

\* difflib.get_close_matches(word, possibilities, n, cutoff)
get_close_matches(word, possibilities, n, cutoff) ==
    LET best == nlargest(n, CloseEnough(word, possibilities, cutoff, 1))
    IN  [k \in 1..Len(best) |-> best[k][2]]

\* find_stock step 5, from close match k on
RECURSIVE FuzzyMatches(_, _, _, _)
FuzzyMatches(st, query, close_matches, k) ==
    IF k > Len(close_matches) THEN st
    ELSE LET match == close_matches[k]
             i == name_to_stock(st.stocks, match)
         IN  FuzzyMatches(
                 IF i # 0 /\ ~InResults(st, i)
                 THEN [stocks |-> Mark(st.stocks, i, "fuzzy_match",
                                       Times(ratio(query, match), 60)),
                       results |-> Append(st.results, i)]
                 ELSE st,
                 query, close_matches, k + 1)

\* results.sort(key=score, reverse=True): stable, the results are positions in stocks
RECURSIVE SortByScore(_, _)
SortByScore(stocks, results) ==
    IF Len(results) = 0 THEN << >>
    ELSE LET top == CHOOSE k \in 1..Len(results) :
                        /\ \A o \in 1..Len(results) :
                              Ge(stocks[results[k]].score, stocks[results[o]].score)
                        /\ \A o \in 1..(k - 1) :
                              Gt(stocks[results[k]].score, stocks[results[o]].score)
             rest == [k \in 1..(Len(results) - 1) |->
                         IF k < top THEN results[k] ELSE results[k + 1]]
         IN  <<results[top]>> \o SortByScore(stocks, rest)

\* results[:n]
SliceTo(results, n) ==
    IF n >= 0 THEN SubSeq(results, 1, Min(n, Len(results)))
    ELSE SubSeq(results, 1, Max(Len(results) + n, 0))

\* find_stock step 5: the fuzzy matches are looked for when the results are
\* fewer than max_results
FuzzyStep(st, query, max_results) ==
    IF Len(st.results) < max_results
    THEN FuzzyMatches(st, query,
                      get_close_matches(query, all_names(st.stocks, 1),
                                        max_results * 2, Hundredths(30)),
                      1)
    ELSE st

\* the end of find_stock: sort, cut, return the stock dicts
SortAndCut(st, max_results) ==
    LET sorted == SliceTo(SortByScore(st.stocks, st.results), max_results)
    IN  [stocks |-> st.stocks,
         returned |-> [k \in 1..Len(sorted) |-> st.stocks[sorted[k]]]]

\* find_stock once the query is lowered and stripped
Lookup(stocks, query, max_results) ==
    IF Len(query) < 2 THEN [stocks |-> stocks, returned |-> << >>]
    ELSE IF ExactSymbol(stocks, query) # 0
    THEN LET hit == ExactSymbol(stocks, query)
             marked == Mark(stocks, hit, "exact_symbol", Hundredths(100))
         IN  [stocks |-> marked, returned |-> <<marked[hit]>>]
    ELSE Then(ExactNames([stocks |-> stocks, results |-> << >>], query, 1),
              LAMBDA s2 :
         Then(PartialNames(s2, query, 1),
              LAMBDA s3 :
         Then(SearchTerms(s3, query, 1, 1),
              LAMBDA s4 :
         Then(FuzzyStep(s4, query, max_results),
              LAMBDA s5 : SortAndCut(s5, max_results)))))

\* find_stock(query, max_results): the stocks with the marks left on them
\* and the list returned (the stock dicts as they are on return)
find_stock(stocks, query, max_results) ==
    Lookup(stocks, strip(lower(query)), max_results)

\* auto_correct(input_str): the stocks afterwards and the triple returned
auto_correct(stocks, input_str) ==
    Then(find_stock(stocks, input_str, 1),
         LAMBDA r :
             [stocks |-> r.stocks,
              returned |->
                  IF Len(r.returned) > 0
                  THEN <<r.returned[1].symbol, r.returned[1].name, r.returned[1].score>>
                  ELSE <<upper(input_str), "no matching stock found", Hundredths(0)>>])

(***************************************************************************)
(* utils/helpers.py: detect_industry.  stock_data is None or the part of   *)
(* the dict the function reads, [sector, industry] of basic_info, "" for   *)
(* a key that is absent or empty.                                          *)
(***************************************************************************)
\* sector_industry_map, in the order of the dict
sector_industry_map ==
    <<<<"technology", "software">>, <<"technology services", "software">>,
      <<"electronic technology", "software">>, <<"software", "software">>,
      <<"internet", "software">>,
      <<"energy", "energy">>, <<"energy minerals", "energy">>, <<"oil & gas", "energy">>,
      <<"oil & gas production", "energy">>, <<"pipelines", "energy">>,
      <<"financial services", "financial">>, <<"finance", "financial">>,
      <<"banking", "financial">>, <<"investment", "financial">>,
      <<"credit services", "financial">>, <<"insurance", "financial">>,
      <<"insurance companies", "financial">>,
      <<"healthcare", "healthcare">>, <<"health technology", "healthcare">>,
      <<"pharmaceuticals", "healthcare">>, <<"biotechnology", "healthcare">>,
      <<"medical", "healthcare">>,
      <<"industrials", "industrial">>, <<"industrial services", "industrial">>,
      <<"manufacturing", "industrial">>, <<"machinery", "industrial">>,
      <<"engineering & construction", "industrial">>,
      <<"aerospace & defense", "industrial">>, <<"transportation", "industrial">>,
      <<"consumer defensive", "consumer_staples">>, <<"consumer staples", "consumer_staples">>,
      <<"consumer products", "consumer_staples">>, <<"beverages", "consumer_staples">>,
      <<"food & staples retailing", "consumer_staples">>,
      <<"food products", "consumer_staples">>,
      <<"consumer cyclical", "consumer_discretionary">>,
      <<"consumer discretionary", "consumer_discretionary">>,
      <<"retail", "consumer_discretionary">>, <<"automobiles", "consumer_discretionary">>,
      <<"apparel", "consumer_discretionary">>, <<"entertainment", "consumer_discretionary">>,
      <<"utilities", "utilities">>,
      <<"communication services", "communication">>, <<"telecommunications", "communication">>,
      <<"real estate", "real_estate">>, <<"reit", "real_estate">>,
      <<"basic materials", "materials">>, <<"materials", "materials">>,
      <<"chemicals", "materials">>, <<"metals & mining", "materials">>>>

\* the keyword lists tried on the industry field, in the order of the code
industry_keywords ==
    <<<<{"bank", "credit", "insurance", "financial", "asset", "capital"}, "financial">>,
      <<{"oil", "gas", "energy", "petroleum", "drilling", "exploration"}, "energy">>,
      <<{"medical", "pharma", "health", "biotech", "drug", "healthcare"}, "healthcare">>,
      <<{"manufactur", "industrial", "machine", "engineering", "construction"}, "industrial">>,
      <<{"beverage", "food", "consumer", "staples", "retail", "product"}, "consumer_staples">>>>

\* ticker_map
ticker_map ==
    [t \in {"KO", "PEP", "PG", "UL", "NESTLE", "WMT", "COST", "MCD", "SBUX"}
        |-> "consumer_staples"]
    @@ [t \in {"JPM", "BAC", "WFC", "C", "GS", "MS", "SCHW", "BLK", "AXP", "PYPL", "V", "MA"}
        |-> "financial"]
    @@ [t \in {"XOM", "CVX", "COP", "SLB", "EOG", "MPC", "PSX", "VLO", "OXY"} |-> "energy"]
    @@ [t \in {"JNJ", "PFE", "MRK", "ABT", "TMO", "DHR", "LLY", "UNH", "AMGN"} |-> "healthcare"]
    @@ [t \in {"CAT", "GE", "HON", "BA", "MMM", "UTX", "DE", "LMT", "RTX"} |-> "industrial"]
    @@ [t \in {"AAPL", "MSFT", "GOOGL", "META", "NVDA", "ADBE", "ORCL", "CRM", "INTC", "AMD",
               "TSM", "IBM"} |-> "software"]
    @@ [t \in {"AMZN", "TSLA", "NKE", "HD"} |-> "consumer_discretionary"]
    @@ [t \in {"T", "VZ"} |-> "communication"]
    @@ [t \in {"NEE", "DUK"} |-> "utilities"]
    @@ [t \in {"AMT", "PLD"} |-> "real_estate"]
    @@ [t \in {"LIN", "APD"} |-> "materials"]

\* the keys of sector_industry_map found in the field, by position
MapHits(field) ==
    {i \in 1..Len(sector_industry_map) : In(sector_industry_map[i][1], field)}

\* for key, value in sector_industry_map.items(): if key in field: return
\* value -- whether the loop returns, and what
InMap(field) == MapHits(field) # {}
MapCode(field) ==
    sector_industry_map[CHOOSE i \in MapHits(field) : \A j \in MapHits(field) : i <= j][2]

\* the keyword lists that have a word in the field, by position
KeywordHits(field) ==
    {i \in 1..Len(industry_keywords) : \E word \in industry_keywords[i][1] : In(word, field)}

\* the chain of if any(word in industry for word in [...]): return ...
HasKeyword(field) == KeywordHits(field) # {}
KeywordCode(field) ==
    industry_keywords[CHOOSE i \in KeywordHits(field) : \A j \in KeywordHits(field) : i <= j][2]

\* ticker_map.get(ticker, 'software')
FromTickerMap(ticker) ==
    IF ticker \in DOMAIN ticker_map THEN ticker_map[ticker] ELSE "software"

\* whether the block on the stock data returns, for the lowered sector
\* and industry, and what it returns
Decides(sector_lower, industry_lower) ==
    InMap(sector_lower) \/ InMap(industry_lower) \/ HasKeyword(industry_lower)
FromStockData(sector_lower, industry_lower) ==
    IF InMap(sector_lower) THEN MapCode(sector_lower)
    ELSE IF InMap(industry_lower) THEN MapCode(industry_lower)
    ELSE KeywordCode(industry_lower)

\* a slip: the ticker map is asked first
detect_industry_TickerFirst(ticker, data) ==
    IF upper(ticker) \in DOMAIN ticker_map THEN ticker_map[upper(ticker)]
    ELSE IF data # None /\ data.sector # ""
            /\ Decides(lower(data.sector), lower(data.industry))
    THEN FromStockData(lower(data.sector), lower(data.industry))
    ELSE "software"

detect_industry(ticker, data) ==
    IF data # None /\ data.sector # ""
       /\ Decides(lower(data.sector), lower(data.industry))
    THEN FromStockData(lower(data.sector), lower(data.industry))
    ELSE FromTickerMap(upper(ticker))

(***************************************************************************)
(* main.py: main()                                                         *)
(***************************************************************************)
MinDays == 60

\* the data-source mark of main(): full / actual data, or enhanced /
\* simulated+actual data (moni+shiji shuju)
DataSourceLabel(data) ==
    IF Get(data, "data_quality", "full") # "full"
    THEN [data_quality |-> "enhanced", data_source |-> "simulated+actual"]
    ELSE [data_quality |-> "full", data_source |-> "actual"]

(***************************************************************************)
(* The outside world of the pipeline: the clock and what yfinance answers. *)
(***************************************************************************)
StartHour == 18
TickHours == 3
MaxHour == 27
MaxDups == 1

Tickers == {"AAPL"}

\* self.stock.info: raises, is empty, or is a dict (bad: with a field on
\* which an extraction step raises)
InfoOutcomes ==
    {[kind |-> "raise", bad |-> FALSE], [kind |-> "empty", bad |-> FALSE],
     [kind |-> "ok", bad |-> FALSE], [kind |-> "ok", bad |-> TRUE]}

\* row counts of an upstream history, on both sides of 5, 20 and 60
UpstreamRows == {4, 5, 20, 21, 60}

\* self.stock.history(): raises, returns an empty frame or returns rows
HistoryOutcomes ==
    {[kind |-> "raise", rows |-> 0], [kind |-> "empty", rows |-> 0]}
    \cup {[kind |-> "rows", rows |-> n] : n \in UpstreamRows}

(***************************************************************************)
(* The inputs of the scoring engine: values on both sides of every         *)
(* threshold of every profile.                                             *)
(***************************************************************************)
GrowthValues == {-5, 0, 3, 5, 8, 10, 12, 15, 20, 25}
MarginValues == {0, 5, 8, 10, 12, 15, 20, 25, 30, 35}
DebtValues == {0, 25, 30, 40, 50, 70, 75, 100, 500, 1000, 1500}
CashflowValues == {-1, 0, 1}
PEValues == {-3, 0, 10, 25, 30, 45}

FinancialInputs ==
    [revenue_growth : GrowthValues,
     operating_margin : MarginValues,
     debt_to_equity : DebtValues,
     free_cashflow : CashflowValues,
     trailing_pe : PEValues]

\* <<has_sufficient_data, history_len>>
DataFlags == {<<TRUE, -1>>, <<FALSE, -1>>, <<FALSE, 9>>, <<FALSE, 10>>}
HighValues == {-40, -30, -20, -10, 0}
RsiValues == {20, 35, 50, 80}
\* <<current, ma20, ma50>>
PriceValues == {<<0, 90, 80>>, <<100, 90, 80>>, <<100, 110, 120>>, <<100, 100, 100>>}
\* <<volume, avg_volume>>
VolumeValues == {<<0, 100>>, <<160, 100>>, <<150, 100>>, <<100, 0>>}
ChangeValues == {3, 5}
AdvancedValues == {None} \cup [oversold : BOOLEAN, overbought : BOOLEAN]

TechnicalInput(flags, high, rsi, price, vol, chg, adv) ==
    [has_sufficient_data |-> flags[1],
     history_len |-> flags[2],
     current_vs_high |-> high,
     rsi |-> rsi,
     current |-> price[1],
     ma20 |-> price[2],
     ma50 |-> price[3],
     volume |-> vol[1],
     avg_volume |-> vol[2],
     change_pct |-> chg,
     advanced |-> adv]

\* valuation.price_to_book, hundredths (1000 is the default of the lookup)
PriceToBookValues == {0, 150, 200, 1000}

(***************************************************************************)
(* The scoring engine as a state machine: the constructor, then analyze()  *)
(* step by step (its results are locals of analyze(), gone on return).     *)
(***************************************************************************)
\* UniversalAnalyzer(industry)
Construct(ind) ==
    /\ apc = "ready"
    /\ industry' = ind
    /\ profile' = _load_industry_profile(ind)
    /\ UNCHANGED <<apc, fundamentals, technicals, signal>>
    /\ UNCHANGED <<pvars, xvars>>

\* analyze(): fundamentals = self._analyze_fundamentals(data)
AnalyzeFundamentals ==
    /\ apc = "ready"
    /\ \E data \in FinancialInputs :
          fundamentals' = _analyze_fundamentals(profile, data)
    /\ apc' = "fundamentals"
    /\ UNCHANGED <<industry, profile, technicals, signal>>
    /\ UNCHANGED <<pvars, xvars>>

\* analyze(): technicals = self._analyze_technicals(data)
AnalyzeTechnicals ==
    /\ apc = "fundamentals"
    /\ \E flags \in DataFlags, high \in HighValues, rsi \in RsiValues,
          price \in PriceValues, vol \in VolumeValues, chg \in ChangeValues,
          adv \in AdvancedValues :
          technicals' = _analyze_technicals(
                            TechnicalInput(flags, high, rsi, price, vol, chg, adv))
    /\ apc' = "technicals"
    /\ UNCHANGED <<industry, profile, fundamentals, signal>>
    /\ UNCHANGED <<pvars, xvars>>

\* analyze(): signal = self._generate_signal(fundamentals, technicals, data)
GenerateSignal ==
    /\ apc = "technicals"
    /\ \E pb \in PriceToBookValues :
          signal' = _generate_signal(industry, fundamentals, technicals, pb)
    /\ apc' = "signal"
    /\ UNCHANGED <<industry, profile, fundamentals, technicals>>
    /\ UNCHANGED <<pvars, xvars>>

\* analyze() returns
Return ==
    /\ apc = "signal"
    /\ apc' = "ready"
    /\ fundamentals' = None
    /\ technicals' = None
    /\ signal' = None
    /\ UNCHANGED <<industry, profile>>
    /\ UNCHANGED <<pvars, xvars>>

\* the utilities nobody has constructed or called
LibraryIdle ==
    /\ searcher = None
    /\ search_call = None
    /\ call = None
    /\ web = None

\* the pipeline before main() is started: an empty data/cache
PipelineIdle ==
    /\ LibraryIdle
    /\ now = StartHour
    /\ cache = {}
    /\ fetcher = None
    /\ stock_data = None
    /\ requests = None
    /\ mpc = "idle"
    /\ tech_indicators = None

(***************************************************************************)
(* The CLI pipeline as a state machine: main() step by step.  Hours pass   *)
(* while the program waits for input or is not running.                    *)
(***************************************************************************)
\* main(): fetcher = UniversalDataFetcher(ticker, use_cache=use_cache)
NewFetcher(ticker, use_cache) ==
    /\ mpc = "idle"
    /\ fetcher' = UniversalDataFetcher(ticker, use_cache, DefaultCacheExpiryHours)
    /\ mpc' = "constructed"
    /\ UNCHANGED <<now, cache, stock_data, requests, tech_indicators>>
    /\ UNCHANGED <<avars, xvars>>

\* stock_data = fetcher.fetch_comprehensive_data(), the upstream answering
\* with one of infos and, at each attempt, with one of histories
FetchFrom(infos, histories) ==
    /\ mpc = "constructed"
    /\ \E info \in infos, outs \in [1..max_retries -> histories],
          dups \in 0..MaxDups :
          LET r == fetch_comprehensive_data(fetcher, cache, now, info, outs, dups)
          IN  /\ stock_data' = r.data
              /\ fetcher' = [fetcher EXCEPT !.cache_hit = r.cache_hit]
              /\ cache' = r.cache
              /\ requests' = [upstream |-> IF r.info_requests = 0 THEN None ELSE info,
                              info_requests |-> r.info_requests,
                              history_requests |-> r.history_requests,
                              cache_writes |-> r.cache_writes]
              /\ mpc' = IF r.raised THEN "failed" ELSE "fetched"
    /\ UNCHANGED <<now, tech_indicators>>
    /\ UNCHANGED <<avars, xvars>>

\* main(): stock_data = fetcher.fetch_comprehensive_data()
Fetch == FetchFrom(InfoOutcomes, HistoryOutcomes)

\* main(): stock_data = TechnicalDataEnhancer.ensure_sufficient_data(stock_data, min_days=60)
EnsureSufficientData ==
    /\ mpc = "fetched"
    /\ stock_data' = ensure_sufficient_data(stock_data, MinDays)
    /\ mpc' = "enhanced"
    /\ UNCHANGED <<now, cache, fetcher, requests, tech_indicators>>
    /\ UNCHANGED <<avars, xvars>>

\* main(): the indicators are computed and get their data-source mark
LabelIndicators ==
    /\ mpc = "enhanced"
    /\ tech_indicators' = DataSourceLabel(stock_data)
    /\ mpc' = "labelled"
    /\ UNCHANGED <<now, cache, fetcher, stock_data, requests>>
    /\ UNCHANGED <<avars, xvars>>

\* fetcher.clear_cache() on a UniversalDataFetcher: the class defines no
\* such method, the attribute lookup raises AttributeError
clear_cache(files, ticker) == [raised |-> TRUE, cache |-> files]

MenuChoices == {"1", "2", "3"}

\* main(): the report is written, the summary shown, then
\* cache_management(ticker) reads a choice: 1 clears the ticker's cache,
\* 2 shows the cache status, anything else goes on
cache_management(choice) ==
    /\ mpc = "labelled"
    /\ IF choice = "1"
       THEN LET r == clear_cache(cache, fetcher.ticker)
            IN  /\ cache' = r.cache
                /\ mpc' = IF r.raised THEN "clear_raised" ELSE "cleared"
       ELSE /\ cache' = cache
            /\ mpc' = "menu_done"
    /\ UNCHANGED <<now, fetcher, stock_data, requests, tech_indicators>>
    /\ UNCHANGED <<avars, xvars>>

\* main() ends (after the menu, or after the exception handler printed the failure)
Finish ==
    /\ mpc \in {"menu_done", "cleared", "clear_raised", "failed"}
    /\ mpc' = "idle"
    /\ fetcher' = None
    /\ stock_data' = None
    /\ requests' = None
    /\ tech_indicators' = None
    /\ UNCHANGED <<now, cache>>
    /\ UNCHANGED <<avars, xvars>>

\* time passes
Tick ==
    /\ mpc = "idle"
    /\ now + TickHours <= MaxHour
    /\ now' = now + TickHours
    /\ UNCHANGED <<cache, fetcher, stock_data, requests, mpc, tech_indicators>>
    /\ UNCHANGED <<avars, xvars>>

PipelineInit ==
    /\ industry = "software"
    /\ profile = _load_industry_profile("software")
    /\ apc = "ready"
    /\ fundamentals = None
    /\ technicals = None
    /\ signal = None
    /\ PipelineIdle

PipelineNext ==
    \/ \E t \in Tickers, uc \in BOOLEAN : NewFetcher(t, uc)
    \/ Fetch
    \/ EnsureSufficientData
    \/ LabelIndicators
    \/ \E c \in MenuChoices : cache_management(c)
    \/ Finish
    \/ Tick

PipelineSpec == PipelineInit /\ [][PipelineNext]_vars

(***************************************************************************)
(* A program that uses the fetcher as a library: it constructs fetchers    *)
(* with a cache_expiry_hours of its own, fetches and lets them go.         *)
(***************************************************************************)
ExpiryChoices == {1, 6, 12}

\* an upstream that answers: a usable info dict, a short or a long history
AnsweringInfo == {[kind |-> "ok", bad |-> FALSE]}
AnsweringHistory == {[kind |-> "rows", rows |-> 4], [kind |-> "rows", rows |-> 60]}

\* fetcher = UniversalDataFetcher(ticker, use_cache, cache_expiry_hours)
ConstructFetcher(ticker, use_cache, cache_expiry_hours) ==
    /\ mpc = "idle"
    /\ fetcher' = UniversalDataFetcher(ticker, use_cache, cache_expiry_hours)
    /\ mpc' = "constructed"
    /\ UNCHANGED <<now, cache, stock_data, requests, tech_indicators>>
    /\ UNCHANGED <<avars, xvars>>

\* the caller is done with the data and the fetcher
Release ==
    /\ mpc = "fetched"
    /\ mpc' = "idle"
    /\ fetcher' = None
    /\ stock_data' = None
    /\ requests' = None
    /\ UNCHANGED <<now, cache, tech_indicators>>
    /\ UNCHANGED <<avars, xvars>>

FetcherNext ==
    \/ \E t \in Tickers, uc \in BOOLEAN, h \in ExpiryChoices : ConstructFetcher(t, uc, h)
    \/ FetchFrom(AnsweringInfo, AnsweringHistory)
    \/ Release
    \/ Tick

FetcherSpec == PipelineInit /\ [][FetcherNext]_vars

(***************************************************************************)
(* The cache directory under save_to_cache calls.  It starts as daily      *)
(* saves of one ticker have left it (one file a day, written at noon) and  *)
(* is then written for either ticker, at most once per half day.           *)
(***************************************************************************)
FirstDay == 19
LastDay == 21
HalfDay == 12

DirTickers == {"BRK", "BRK_B"}

\* what a successful fetch saves
SavedData == _process_all_data([real |-> 60, synth |-> 0], 0)

\* the directory after a save of the ticker at noon of each of the days 0..days-1
RECURSIVE DailySaves(_, _)
DailySaves(ticker, days) ==
    IF days = 0 THEN {}
    ELSE save_to_cache(DailySaves(ticker, days - 1), SavedData, ticker,
                       (days - 1) * HoursPerDay + HalfDay)

\* save_to_cache(data, ticker); no two files are written at the same instant
SaveToCache(ticker) ==
    /\ mpc = "idle"
    /\ \A f \in cache : f.mtime < now
    /\ cache' = save_to_cache(cache, SavedData, ticker, now)
    /\ UNCHANGED <<now, fetcher, stock_data, requests, mpc, tech_indicators>>
    /\ UNCHANGED <<avars, xvars>>

\* half a day passes
HalfDayPasses ==
    /\ mpc = "idle"
    /\ now + HalfDay < (LastDay + 1) * HoursPerDay
    /\ now' = now + HalfDay
    /\ UNCHANGED <<cache, fetcher, stock_data, requests, mpc, tech_indicators>>
    /\ UNCHANGED <<avars, xvars>>

DirInit ==
    /\ industry = "software"
    /\ profile = _load_industry_profile("software")
    /\ apc = "ready"
    /\ fundamentals = None
    /\ technicals = None
    /\ signal = None
    /\ LibraryIdle
    /\ now = FirstDay * HoursPerDay
    /\ \E t \in DirTickers : cache = DailySaves(t, FirstDay)
    /\ fetcher = None
    /\ stock_data = None
    /\ requests = None
    /\ mpc = "idle"
    /\ tech_indicators = None

DirNext ==
    \/ \E t \in DirTickers : SaveToCache(t)
    \/ HalfDayPasses

DirSpec == DirInit /\ [][DirNext]_vars

(***************************************************************************)
(* The stock searcher as a state machine: it is constructed over a         *)
(* database file, then find_stock and auto_correct are called on it.  The  *)
(* marks a call leaves on the stock dicts stay for the next call.          *)
(***************************************************************************)
\* data/stock_database.json: files with a one-letter symbol, with search
\* terms, and without
Databases ==
    {<<StockDict("AAPL", "Apple Inc.", <<"aapl", "apple inc.">>),
       StockDict("V", "Visa Inc.", <<"visa inc.", "v">>),
       StockDict("META", "Meta Platforms Inc.", <<"meta", "fb", "meta platforms inc.">>)>>,
     <<StockDict("FISV", "Fiserv Inc.", <<"fiserv inc.", "fiserw", "fiserve", "fisv">>),
       StockDict("F", "Ford Motor", << >>),
       StockDict("FIS", "Fidelity National", << >>)>>}

Queries ==
    {"", " ", "a", " V", "f", " aapl ", "FISV", "fis", "apple inc.", "Inc.", "fiserve",
     "appel", "xq"}

MaxResultsValues == {0, 1, 2}
MaxCalls == 1

\* the searcher over a database: just constructed, or with the marks that
\* an earlier find_stock call left on its stocks
Searchers == Databases \cup {find_stock(db, "inc", 5).stocks : db \in Databases}

\* the calls made on the searcher so far
Calls == IF search_call = None THEN 0 ELSE search_call.nth

\* results = searcher.find_stock(query, max_results)
FindStock(query, max_results) ==
    /\ searcher # None
    /\ Calls < MaxCalls
    /\ \E r \in {find_stock(searcher, query, max_results)} :
           /\ searcher' = r.stocks
           /\ search_call' = [op |-> "find_stock", query |-> query,
                              max_results |-> max_results, returned |-> r.returned,
                              nth |-> Calls + 1]
    /\ UNCHANGED <<avars, pvars, call, web>>

\* symbol, name, score = searcher.auto_correct(input_str)
AutoCorrect(input_str) ==
    /\ searcher # None
    /\ Calls < MaxCalls
    /\ \E r \in {auto_correct(searcher, input_str)} :
           /\ searcher' = r.stocks
           /\ search_call' = [op |-> "auto_correct", query |-> input_str,
                              max_results |-> 1, returned |-> r.returned,
                              nth |-> Calls + 1]
    /\ UNCHANGED <<avars, pvars, call, web>>

SearchInit ==
    /\ industry = "software"
    /\ profile = _load_industry_profile("software")
    /\ apc = "ready"
    /\ fundamentals = None
    /\ technicals = None
    /\ signal = None
    /\ now = StartHour
    /\ cache = {}
    /\ fetcher = None
    /\ stock_data = None
    /\ requests = None
    /\ mpc = "idle"
    /\ tech_indicators = None
    /\ searcher \in Searchers
    /\ search_call = None
    /\ call = None
    /\ web = None

SearchNext ==
    \/ \E q \in Queries, n \in MaxResultsValues : FindStock(q, n)
    \/ \E q \in Queries : AutoCorrect(q)

SearchSpec == SearchInit /\ [][SearchNext]_vars

(***************************************************************************)
(* main.py: analyze_for_web and analyze_stock_for_streamlit, the entry     *)
(* points of the web front end.  The whole body of each is one try block;  *)
(* the calls inside it are taken one at a time, and each either returns or *)
(* raises.  print is taken to succeed.                                     *)
(***************************************************************************)
WebFunctions == {"analyze_for_web", "analyze_stock_for_streamlit"}

\* the calls of the try block, in the order the code makes them
TrySteps(fn) ==
    <<"UniversalDataFetcher", "fetch_comprehensive_data", "ensure_sufficient_data",
      "detect_industry">>
    \o (IF fn = "analyze_stock_for_streamlit" THEN <<"get_industry_display_name">> ELSE << >>)
    \o <<"UniversalAnalyzer", "analyze", "AdvancedTechnicalAnalyzer",
         "calculate_all_indicators", "ReportGenerator", "generate">>

\* subclasses of Exception a call can raise
Exceptions == {"ValueError", "KeyError", "TypeError", "AttributeError"}

\* the dict of the return statement that ends the try block
SuccessDict(fn) ==
    [success |-> TRUE,
     keys |-> IF fn = "analyze_for_web"
              THEN {"success", "analysis_result", "report_content", "ticker",
                    "industry", "data_quality"}
              ELSE {"success", "stock_data", "analysis_result", "report_content",
                    "ticker", "industry", "industry_display", "timestamp"},
     error |-> None]

\* a slip: except ValueError, every other exception leaves the function
except_ValueError(fn, e) ==
    IF e.type = "ValueError"
    THEN [raised |-> None,
          returned |-> [success |-> FALSE, keys |-> {"success", "error"}, error |-> e]]
    ELSE [raised |-> e, returned |-> None]

\* except Exception as e: the handler returns the failure dict, 'error'
\* being str(e)
except_Exception(fn, e) ==
    [raised |-> None,
     returned |-> [success |-> FALSE,
                   keys |-> IF fn = "analyze_for_web"
                            THEN {"success", "error", "traceback"}
                            ELSE {"success", "error", "error_details", "ticker"},
                   error |-> e]]

WebTickers == {"AAPL", "XOM"}

\* the front end calls fn(ticker, use_cache)
WebCall(fn, ticker, use_cache) ==
    /\ web = None
    /\ web' = [fn |-> fn, ticker |-> ticker, use_cache |-> use_cache, pc |-> 1,
               raised |-> None, outcome |-> None]
    /\ UNCHANGED <<avars, pvars, searcher, search_call, call>>

\* the next call of the try block returns
StepReturns ==
    /\ web # None
    /\ web.outcome = None
    /\ web' = IF web.pc < Len(TrySteps(web.fn))
              THEN [web EXCEPT !.pc = @ + 1]
              ELSE [web EXCEPT !.outcome = [raised |-> None,
                                            returned |-> SuccessDict(web.fn)]]
    /\ UNCHANGED <<avars, pvars, searcher, search_call, call>>

\* the next call of the try block raises exception type
StepRaises(type) ==
    /\ web # None
    /\ web.outcome = None
    /\ \E e \in {[type |-> type, in |-> TrySteps(web.fn)[web.pc]]} :
          web' = [web EXCEPT !.raised = e, !.outcome = except_Exception(web.fn, e)]
    /\ UNCHANGED <<avars, pvars, searcher, search_call, call>>

\* the front end has taken the result
WebDone ==
    /\ web # None
    /\ web.outcome # None
    /\ web' = None
    /\ UNCHANGED <<avars, pvars, searcher, search_call, call>>

WebNext ==
    \/ \E fn \in WebFunctions, ticker \in WebTickers, use_cache \in BOOLEAN :
          WebCall(fn, ticker, use_cache)
    \/ StepReturns
    \/ \E type \in Exceptions : StepRaises(type)
    \/ WebDone

WebSpec == PipelineInit /\ [][WebNext]_vars

(***************************************************************************)
(* _identify_risks called on a constructed analyzer                        *)
(***************************************************************************)
RiskDebtValues == {100, 101, 250, 251, 1500, 1501}
RiskPEValues == {15, 16, 40, 41}
RiskGrowthValues == {-5, 0}
RiskTechnicals == {None, [data_quality |-> "full"], [data_quality |-> "enhanced"]}

RiskInputs ==
    [debt_to_equity : RiskDebtValues,
     trailing_pe : RiskPEValues,
     revenue_growth : RiskGrowthValues,
     technical_indicators : RiskTechnicals]

\* UniversalAnalyzer(industry) for the risk check
NewAnalyzer(ind) ==
    /\ apc = "ready"
    /\ industry' = ind
    /\ profile' = _load_industry_profile(ind)
    /\ call' = None
    /\ UNCHANGED <<apc, fundamentals, technicals, signal>>
    /\ UNCHANGED <<pvars, searcher, search_call, web>>

\* self._identify_risks(data)
IdentifyRisks(data) ==
    /\ apc = "ready"
    /\ call' = [op |-> "_identify_risks", data |-> data,
                returned |-> _identify_risks(profile, data)]
    /\ UNCHANGED <<avars, pvars, searcher, search_call, web>>

RiskNext ==
    \/ \E ind \in IndustryCodes : NewAnalyzer(ind)
    \/ \E data \in RiskInputs : IdentifyRisks(data)

RiskSpec == PipelineInit /\ [][RiskNext]_vars

(***************************************************************************)
(* ensure_sufficient_data called on stock data of every kind of history    *)
(***************************************************************************)
\* row counts around the min_days values, as upstream and synthesized rows
StartingHistories ==
    {None, EmptyFrame}
    \cup {[real |-> r, synth |-> 0] : r \in {1, 19, 20, 29, 30, 59, 60, 61}}
    \cup {[real |-> r, synth |-> BasicRows] : r \in {0, 4, 19}}

\* stock data as the fetcher returns it, with the history to start from
\* (None: price_data has no history, as in the minimal data)
StartingData ==
    {_get_minimal_data}
    \cup {[_process_all_data([real |-> 60, synth |-> 0], 0) EXCEPT !.history = h] :
              h \in StartingHistories \ {None}}

MinDaysValues == {20, 30, 60}
MaxEnsures == 2

\* the calls made so far
Ensures == IF call = None THEN 0 ELSE call.nth

\* TechnicalDataEnhancer.ensure_sufficient_data(stock_data, min_days)
Ensure(min_days) ==
    /\ stock_data # None
    /\ Ensures < MaxEnsures
    /\ \E r \in {ensure_sufficient_data(stock_data, min_days)} :
          /\ stock_data' = r
          /\ call' = [op |-> "ensure_sufficient_data", min_days |-> min_days,
                      given |-> stock_data, returned |-> r,
                      nth |-> Ensures + 1]
    /\ UNCHANGED <<now, cache, fetcher, requests, mpc, tech_indicators>>
    /\ UNCHANGED <<avars, searcher, search_call, web>>

EnhancerInit ==
    /\ industry = "software"
    /\ profile = _load_industry_profile("software")
    /\ apc = "ready"
    /\ fundamentals = None
    /\ technicals = None
    /\ signal = None
    /\ LibraryIdle
    /\ now = StartHour
    /\ cache = {}
    /\ fetcher = None
    /\ stock_data \in StartingData
    /\ requests = None
    /\ mpc = "idle"
    /\ tech_indicators = None

EnhancerNext == \E min_days \in MinDaysValues : Ensure(min_days)

EnhancerSpec == EnhancerInit /\ [][EnhancerNext]_vars

(***************************************************************************)
(* detect_industry called with and without stock data                      *)
(***************************************************************************)
DetectTickers == {"aapl", "V", "XOM", "ZZZZ", "ko"}
Sectors ==
    {"", "Unknown", "Technology", "Financial Services", "Health Technology", "Energy",
     "Consumer Defensive", "Real Estate", "Conglomerates"}
Industries ==
    {"", "Unknown", "Software - Infrastructure", "Banks - Regional", "Oil & Gas E&P",
     "Drug Manufacturers", "Semiconductors", "Specialty Chemicals"}

DetectData == {None} \cup [sector : Sectors, industry : Industries]

\* detect_industry(ticker, stock_data)
DetectIndustry(ticker, data) ==
    /\ call = None
    /\ \E r \in {detect_industry(ticker, data)} :
          call' = [op |-> "detect_industry", ticker |-> ticker, stock_data |-> data,
                   returned |-> r]
    /\ UNCHANGED <<avars, pvars, searcher, search_call, web>>

DetectNext == \E ticker \in DetectTickers, data \in DetectData : DetectIndustry(ticker, data)

DetectSpec == PipelineInit /\ [][DetectNext]_vars

(***************************************************************************)
(* The report written from the result of analyze(): the strategy section   *)
(* reads result['signal']['recommendation'], which nothing changes between *)
(* analyze() and ReportGenerator.generate().                               *)
(***************************************************************************)
\* generate(): report.extend(self._generate_strategy_recommendation())
StrategySection ==
    /\ apc = "signal"
    /\ call = None
    /\ call' = [op |-> "_generate_strategy_recommendation",
                recommendation |-> signal.recommendation,
                block |-> _generate_strategy_recommendation(signal.recommendation)]
    /\ UNCHANGED <<avars, pvars, searcher, search_call, web>>

\* the report is written; the analysis result and the report are gone
ReportDone ==
    /\ apc = "signal"
    /\ call # None
    /\ apc' = "ready"
    /\ fundamentals' = None
    /\ technicals' = None
    /\ signal' = None
    /\ call' = None
    /\ UNCHANGED <<industry, profile>>
    /\ UNCHANGED <<pvars, searcher, search_call, web>>

ReportNext ==
    \/ \E ind \in IndustryCodes : Construct(ind)
    \/ AnalyzeFundamentals
    \/ AnalyzeTechnicals
    \/ GenerateSignal
    \/ StrategySection
    \/ ReportDone

Init ==
    /\ \E ind \in IndustryCodes :
          /\ industry = ind
          /\ profile = _load_industry_profile(ind)
    /\ apc = "ready"
    /\ fundamentals = None
    /\ technicals = None
    /\ signal = None
    /\ PipelineIdle

Next ==
    \/ \E ind \in IndustryCodes : Construct(ind)
    \/ AnalyzeFundamentals
    \/ AnalyzeTechnicals
    \/ GenerateSignal
    \/ Return

Spec == Init /\ [][Next]_vars

ReportSpec == Init /\ [][ReportNext]_vars

(***************************************************************************)
(* Properties of the scoring engine (checked under Spec)                   *)
(***************************************************************************)
\* C1: _analyze_fundamentals returns an integer score with 0 <= score <= 8
\* and max_score = 8, for every input and every industry profile.
C1_FundamentalScoreBounded ==
    fundamentals # None =>
        /\ fundamentals.score \in 0..8
        /\ fundamentals.max_score = 8

\* the top score is reached, under a profile other than the software one
C1_Witness ==
    /\ fundamentals # None
    /\ fundamentals.score = 8
    /\ profile = FINANCIAL_PROFILE

\* C2: _analyze_technicals returns a score that is a whole number of half
\* points between 0 and 6 (0..12 half points) with max_score = 6, and the
\* score is 0 when the data is insufficient.
C2_TechnicalScoreBounded ==
    technicals # None =>
        /\ technicals.score \in 0..12
        /\ technicals.max_score = 6
        /\ technicals.data_status = "insufficient" => technicals.score = 0

\* sufficient data scored at the upper limit (the steps add up to 7 points)
C2_Witness ==
    /\ technicals # None
    /\ technicals.data_status = "sufficient"
    /\ technicals.score = 12

\* C3: the rating is a fixed function of the score alone: fundamentals
\* excellent from 6, good for 4..5, medium for 2..3, weak below 2; with
\* sufficient data technicals oversold/opportunity from 4.5, neutral-strong
\* from 3, neutral from 1.5, neutral-weak above 0, cautious at 0.
C3_RatingByScore ==
    /\ fundamentals # None =>
          fundamentals.rating =
             CASE fundamentals.score >= 6 -> "excellent"
               [] fundamentals.score \in 4..5 -> "good"
               [] fundamentals.score \in 2..3 -> "medium"
               [] OTHER -> "weak"
    /\ (technicals # None /\ technicals.data_status = "sufficient") =>
          technicals.rating =
             CASE technicals.score >= 9 -> "oversold/opportunity"
               [] technicals.score \in 6..8 -> "neutral-strong"
               [] technicals.score \in 3..5 -> "neutral"
               [] technicals.score \in 1..2 -> "neutral-weak"
               [] OTHER -> "cautious"

\* both ratings computed, in the middle of their tables
C3_Witness ==
    /\ fundamentals # None
    /\ technicals # None
    /\ fundamentals.rating = "good"
    /\ fundamentals.score = 5
    /\ technicals.rating = "neutral-weak"

\* the rule table of _generate_signal: each recommendation with its confidence
SignalTable ==
    {[recommendation |-> "consider buying", confidence |-> 40],
     [recommendation |-> "consider allocating", confidence |-> 40],
     [recommendation |-> "attractive valuation", confidence |-> 40],
     [recommendation |-> "technical opportunity", confidence |-> 35],
     [recommendation |-> "oversold rebound opportunity", confidence |-> 30],
     [recommendation |-> "cautious", confidence |-> 30],
     [recommendation |-> "fundamentals good (technical data insufficient)", confidence |-> 30],
     [recommendation |-> "watch bullish", confidence |-> 28],
     [recommendation |-> "fundamental support", confidence |-> 28],
     [recommendation |-> "watch", confidence |-> 25],
     [recommendation |-> "watch (technical data insufficient)", confidence |-> 25],
     [recommendation |-> "cautious (technical data insufficient)", confidence |-> 20]}

\* C4: with sufficient technical data and an industry other than energy and
\* financial, the recommendation is "consider buying" (confidence 4.0)
\* exactly when the fundamental score is >= 5 and the technical score >= 4;
\* every signal is one row of the rule table.
C4_SignalRules ==
    signal # None =>
        /\ signal \in SignalTable
        /\ (technicals.data_status = "sufficient" /\ industry \notin {"energy", "financial"}) =>
              /\ signal.recommendation = "consider buying"
                    <=> (fundamentals.score >= 5 /\ technicals.score >= 8)
              /\ signal.recommendation = "consider buying" => signal.confidence = 40

\* the buy signal at its lowest scores, for an industry without a profile module
C4_Witness ==
    /\ signal # None
    /\ industry = "utilities"
    /\ signal.recommendation = "consider buying"
    /\ fundamentals.score = 5
    /\ technicals.score = 8

\* C5: the constructor always leaves a dict profile: the industry's own
\* table for the six industries with a profile module, SOFTWARE_PROFILE for
\* every other code, self.industry keeping the requested code.
C5_ProfileLoaded ==
    /\ industry \in IndustryCodes
    /\ profile # None
    /\ profile =
          CASE industry = "software" -> SOFTWARE_PROFILE
            [] industry = "energy" -> ENERGY_PROFILE
            [] industry = "financial" -> FINANCIAL_PROFILE
            [] industry = "healthcare" -> HEALTHCARE_PROFILE
            [] industry = "industrial" -> INDUSTRIAL_PROFILE
            [] industry = "consumer_staples" -> CONSUMER_STAPLES_PROFILE
            [] OTHER -> SOFTWARE_PROFILE

\* an analyzer for a code without a module: software table, code kept
C5_Witness ==
    /\ industry = "real_estate"
    /\ profile = SOFTWARE_PROFILE
    /\ apc = "fundamentals"

\* the keys the analyzer and the report generator read
ReadRuleKeys ==
    {"growth_thresholds", "profitability_thresholds", "debt_safe_threshold",
     "debt_warning_threshold", "pe_warning_threshold"}
ReadProfileKeys == {"risk_factors", "key_metrics_to_watch", "investment_themes"}

\* C6: every industry profile carries the threshold values and the
\* qualitative metadata under the keys the analyzer and the report
\* generator read.
C6_ProfileKeys ==
    /\ "fundamental_rules" \in DOMAIN profile
    /\ ReadRuleKeys \subseteq DOMAIN profile.fundamental_rules
    /\ ReadProfileKeys \subseteq DOMAIN profile

(***************************************************************************)
(* Properties of the data fetcher and the CLI pipeline (checked under      *)
(* PipelineSpec)                                                           *)
(***************************************************************************)
\* the upstream info request failed, or an extraction step raised
UpstreamFailed ==
    /\ requests # None
    /\ requests.upstream # None
    /\ (requests.upstream.kind # "ok" \/ requests.upstream.bad)

\* C7: fetch_comprehensive_data never propagates an upstream failure: when
\* the info request raises or returns nothing, or a processing step
\* raises, it returns the minimal placeholder data set (data_quality
\* minimal, an error entry, the six data keys) instead of raising.
C7_FailureGivesMinimalData ==
    /\ mpc # "failed"
    /\ (mpc = "fetched" /\ UpstreamFailed) =>
          /\ stock_data = _get_minimal_data
          /\ stock_data.data_quality = "minimal"
          /\ {"error", "basic_info", "price_data", "financials", "valuation",
              "analyst", "ticker"} \subseteq stock_data.keys

\* a processing step raised after three history requests, and the
\* placeholder came back
C7_Witness ==
    /\ mpc = "fetched"
    /\ UpstreamFailed
    /\ requests.upstream.bad
    /\ requests.history_requests = 3
    /\ stock_data.data_quality = "minimal"

\* C8: whatever the upstream history is, the price_data made by
\* _process_all_data has a history of at least 20 rows, synthesized rows
\* filling in when the upstream rows are fewer than 20, and
\* latest.has_sufficient_data is True.
C8_HistoryAtLeastTwenty ==
    (mpc = "fetched" /\ stock_data.data_quality \in {"full", "partial"}) =>
        /\ stock_data.history # None
        /\ Rows(stock_data.history) >= 20
        /\ stock_data.history.real < 20 => stock_data.history.synth > 0
        /\ stock_data.latest_sufficient

\* a short upstream history merged with simulated rows, one date coinciding
C8_Witness ==
    /\ mpc = "fetched"
    /\ requests.info_requests = 1
    /\ stock_data.data_quality = "partial"
    /\ stock_data.history = [real |-> 5, synth |-> 29]

\* C9: the indicators are marked full / actual data only when the history
\* handed to the technical analyzer has no synthesized rows; whenever rows
\* were synthesized the mark is enhanced / simulated+actual data.
C9_LabelTellsSynthesizedRows ==
    (mpc = "labelled" /\ stock_data.history.synth > 0) =>
        tech_indicators = [data_quality |-> "enhanced", data_source |-> "simulated+actual"]

\* C10: when use_cache is True and load_from_cache returns an entry,
\* fetch_comprehensive_data returns that entry, sets cache_hit, makes no
\* info or history request and leaves the cache as it is; on every other
\* path cache_hit stays False.
C10_CacheHit ==
    [][(mpc = "constructed" /\ mpc' # "constructed") =>
          LET cached == IF fetcher.use_cache
                        THEN load_from_cache(cache, fetcher.ticker, now)
                        ELSE None
          IN  IF cached # None
              THEN /\ mpc' = "fetched"
                   /\ stock_data' = cached
                   /\ fetcher'.cache_hit
                   /\ requests'.info_requests = 0
                   /\ requests'.history_requests = 0
                   /\ requests'.cache_writes = 0
                   /\ cache' = cache
              ELSE /\ ~fetcher.cache_hit
                   /\ ~fetcher'.cache_hit]_vars

\* a fetch served from a cache file written three hours before
C10_Witness ==
    /\ mpc = "fetched"
    /\ fetcher.cache_hit
    /\ "_cache" \in stock_data.keys
    /\ requests.info_requests = 0
    /\ \E f \in cache : f.ticker = fetcher.ticker /\ now - f.mtime = TickHours

\* the file of the last save_to_cache made for the ticker of f
LastSaved(f) == \A g \in cache : g.ticker = f.ticker => g.mtime <= f.mtime

\* C11: a cache entry is valid for 6 hours: the data last saved for a
\* ticker is what load_from_cache returns for that ticker at every time
\* less than 6 hours after the save, and nothing is returned once the
\* entry is 6 hours old or older.
C11_EntryValidSixHours ==
    \A f \in cache :
        LastSaved(f) =>
            IF now - f.mtime < 6
            THEN load_from_cache(cache, f.ticker, now)
                     = [f.data EXCEPT !.keys = @ \cup {"_cache"}]
            ELSE load_from_cache(cache, f.ticker, now) = None

(***************************************************************************)
(* Properties of the fetcher used as a library (checked under FetcherSpec) *)
(***************************************************************************)
\* C12: a fetcher constructed with cache_expiry_hours = h serves a cached
\* entry only while the entry is younger than h hours; when the entry of
\* its ticker is older than h hours the data is fetched from upstream.
C12_ExpiryOfTheFetcher ==
    [][(mpc = "constructed" /\ mpc' = "fetched" /\ fetcher.use_cache) =>
          \A f \in cache :
              (f.ticker = fetcher.ticker /\ LastSaved(f)) =>
                  /\ fetcher'.cache_hit => now - f.mtime < fetcher.cache_expiry_hours
                  /\ now - f.mtime > fetcher.cache_expiry_hours =>
                         /\ ~fetcher'.cache_hit
                         /\ requests'.info_requests = 1]_vars

(***************************************************************************)
(* Properties of the cache directory (checked under DirSpec)               *)
(***************************************************************************)
\* C13: after a save_to_cache call the directory holds at most 20 files
\* for each ticker; the files the cleanup removed are the oldest files of
\* the ticker just saved: never the file just written, never a file of
\* another ticker.
C13_CleanupKeepsTwenty ==
    [][cache' # cache =>
          LET written == CHOOSE f \in cache' : f.mtime = now
              removed == {g \in cache \ cache' :
                             <<g.ticker, g.day>> # <<written.ticker, written.day>>}
          IN  /\ \E f \in cache' : f.mtime = now
              /\ \A t \in DirTickers :
                    Cardinality({f \in cache' : f.ticker = t}) <= 20
              /\ \A g \in removed :
                    /\ g.ticker = written.ticker
                    /\ \A h \in cache' : h.ticker = g.ticker => h.mtime > g.mtime]_vars

(***************************************************************************)
(* Properties of the cache management menu (checked under PipelineSpec)    *)
(***************************************************************************)
\* C14: choosing option 1 of the cache management menu removes the cached
\* entry of the ticker: once the choice is made, load_from_cache finds no
\* entry of the ticker, so the next analysis with caching enabled is not a
\* cache hit.
C14_ClearRemovesEntry ==
    [][(mpc = "labelled" /\ mpc' \in {"cleared", "clear_raised"}) =>
          load_from_cache(cache', fetcher.ticker, now') = None]_vars

(***************************************************************************)
(* Properties of the stock searcher (checked under SearchSpec)             *)
(***************************************************************************)
\* the list a find_stock call returned is ordered by non-increasing score
NonIncreasingScores(returned) ==
    \A k \in 1..(Len(returned) - 1) : Ge(returned[k].score, returned[k + 1].score)

C16_ExactSymbolFound ==
    search_call # None =>
        \A i \in 1..Len(searcher) :
            lower(search_call.query) = lower(searcher[i].symbol) =>
                IF search_call.op = "find_stock"
                THEN /\ Len(search_call.returned) = 1
                     /\ search_call.returned[1].symbol = searcher[i].symbol
                     /\ search_call.returned[1].match_type = "exact_symbol"
                     /\ Eq(search_call.returned[1].score, Hundredths(100))
                ELSE search_call.returned[1] = searcher[i].symbol

\* C17: analyze_for_web and analyze_stock_for_streamlit never raise: every
\* finished call has returned a dict with a boolean 'success'; a dict with
\* success True carries 'analysis_result' and 'report_content'; and when a
\* call of the pipeline raised, the dict has success False and 'error'
\* holds the message of that exception.
C17_WebNeverRaises ==
    (web # None /\ web.outcome # None) =>
        /\ web.outcome.raised = None
        /\ web.outcome.returned # None
        /\ "success" \in web.outcome.returned.keys
        /\ web.outcome.returned.success \in BOOLEAN
        /\ web.outcome.returned.success =>
              {"analysis_result", "report_content"} \subseteq web.outcome.returned.keys
        /\ web.raised # None =>
              /\ ~web.outcome.returned.success
              /\ "error" \in web.outcome.returned.keys
              /\ web.outcome.returned.error = web.raised
        /\ web.raised = None => web.outcome.returned.success

\* the report generator raised a KeyError inside analyze_stock_for_streamlit
C17_Witness ==
    /\ web # None
    /\ web.fn = "analyze_stock_for_streamlit"
    /\ web.raised = [type |-> "KeyError", in |-> "generate"]
    /\ web.outcome # None
    /\ web.outcome.returned.success = FALSE

\* the data-derived risks in the order the claim gives them
DataRiskOrder ==
    <<"high debt", "high valuation", "negative revenue growth",
      "technical analysis based on partly simulated data">>

\* whether a data-derived risk is triggered for the analyzer's profile
Triggered(risk, data) ==
    CASE risk = "high debt" ->
            data.debt_to_equity > profile.fundamental_rules.debt_warning_threshold
      [] risk = "high valuation" ->
            data.trailing_pe > profile.fundamental_rules.pe_warning_threshold
      [] risk = "negative revenue growth" -> data.revenue_growth < 0
      [] OTHER -> /\ data.technical_indicators # None
                  /\ data.technical_indicators.data_quality = "enhanced"

\* C18: _identify_risks returns at most 3 risks: the first two risk factors
\* of the industry profile, followed by the triggered data-derived risks in
\* the order high debt, high valuation, negative revenue growth,
\* simulated-data warning, cut off after the third entry.
C18_AtMostThreeRisks ==
    (call # None /\ call.op = "_identify_risks") =>
        LET triggered == SelectSeq(DataRiskOrder, LAMBDA r : Triggered(r, call.data))
            all == <<profile.risk_factors[1], profile.risk_factors[2]>> \o triggered
        IN  /\ Len(call.returned) <= 3
            /\ \A k \in 1..Len(all) :
                  IF k <= 3 THEN /\ k <= Len(call.returned)
                                 /\ call.returned[k] = all[k]
                  ELSE k > Len(call.returned)

\* an energy stock with every data-derived risk triggered: only the first
\* of them is returned after the two risk factors of the profile
C18_Witness ==
    /\ call # None
    /\ call.op = "_identify_risks"
    /\ industry = "energy"
    /\ call.data.debt_to_equity > 120
    /\ call.data.trailing_pe > 30
    /\ call.data.revenue_growth < 0
    /\ call.data.technical_indicators = [data_quality |-> "enhanced"]
    /\ call.returned = <<profile.risk_factors[1], profile.risk_factors[2], "high debt">>

\* C19: after ensure_sufficient_data(stock_data, min_days) has returned,
\* the history has at least min_days rows whatever the starting history
\* was (absent, empty or short); a history that already had min_days rows
\* is returned unchanged, so applying the operation to the result again
\* returns the same result.
C19_HistoryAtLeastMinDays ==
    (call # None /\ call.op = "ensure_sufficient_data") =>
        /\ call.returned.history # None
        /\ Rows(call.returned.history) >= call.min_days
        /\ (call.given.history # None /\ Rows(call.given.history) >= call.min_days) =>
              call.returned = call.given
        /\ ensure_sufficient_data(call.returned, call.min_days) = call.returned

\* a history of 19 upstream rows was filled up to 60 rows, and the second
\* application with min_days 60 has returned it as it was
C19_Witness ==
    /\ call # None
    /\ call.op = "ensure_sufficient_data"
    /\ call.nth = 2
    /\ call.min_days = 60
    /\ call.given.history = [real |-> 19, synth |-> 41]
    /\ call.returned = call.given

\* the sector or the industry of the stock data matches the mapping: it
\* contains a key of sector_industry_map
MatchesTheMapping(data) ==
    InMap(lower(data.sector)) \/ InMap(lower(data.industry))

\* what the mapping gives for the stock data
MappingCode(data) ==
    IF InMap(lower(data.sector)) THEN MapCode(lower(data.sector))
    ELSE MapCode(lower(data.industry))

ReduceSellCautious ==
    {"reduce", "sell", "cautious", "cautious (technical data insufficient)"}

\* C21: for every recommendation the signal generator can produce, the
\* strategy section of the report matches it: the cautious/reduce block is
\* emitted only for a reduce, sell or cautious recommendation, the
\* watch/hold block for a watch or hold recommendation, and a buy-type
\* recommendation (consider buying, consider allocating) gets the
\* active-allocation block.
C21_StrategyMatchesSignal ==
    (call # None /\ call.op = "_generate_strategy_recommendation") =>
        /\ call.block = "cautious/reduce strategy" =>
              call.recommendation \in ReduceSellCautious
        /\ call.recommendation \in {"watch", "hold"} =>
              call.block = "watch/hold strategy"
        /\ call.recommendation \in {"consider buying", "consider allocating"} =>
              call.block = "active allocation strategy"

====
